---- MODULE Spec2Model ----
(***************************************************************************)
(* Model of vite-plugin-inject-commands (src/src/index.js): the directory  *)
(* walker, the command resolver, the two command invokers, the execute     *)
(* loop and the plugin factory with its lifecycle handlers.                *)
(*                                                                         *)
(* JavaScript strings are TLA+ strings.  Other JavaScript values are       *)
(* records [t, s]: t is the typeof-like tag, s the text of a string or the *)
(* compact JSON text of an object.                                         *)
(***************************************************************************)
EXTENDS Integers, Sequences, FiniteSets

(***************************************************************************)
(* Bounds                                                                  *)
(***************************************************************************)
\* Number of hook firings the host makes in one behaviour.
MaxFirings == 2

(***************************************************************************)
(* JavaScript values                                                       *)
(***************************************************************************)
Undefined == [t |-> "undefined", s |-> ""]
Null == [t |-> "null", s |-> ""]
Str(s) == [t |-> "string", s |-> s]
Obj(json) == [t |-> "object", s |-> json]

\* !v for the values used here: undefined, null and '' are falsy.
Falsy(v) == v.t \in {"undefined", "null"} \/ (v.t = "string" /\ v.s = "")

\* `${v}` in a template literal.
TemplateString(v) ==
    CASE v.t = "undefined" -> "undefined"
      [] v.t = "null" -> "null"
      [] v.t = "string" -> v.s
      [] OTHER -> "[object Object]"

\* JSON.stringify of one array element: undefined is rendered as null.
JSONElement(v) ==
    CASE v.t = "undefined" -> "null"
      [] v.t = "null" -> "null"
      [] v.t = "string" -> "\"" \o v.s \o "\""
      [] OTHER -> v.s

RECURSIVE JoinWith(_, _)
\* Array.prototype.join over a sequence of strings.
JoinWith(parts, sep) ==
    IF parts = <<>> THEN ""
    ELSE IF Len(parts) = 1 THEN parts[1]
    ELSE parts[1] \o sep \o JoinWith(Tail(parts), sep)

\* JSON.stringify(hookArgs) for an array of values.
JSONstringify(arr) ==
    "[" \o JoinWith([k \in 1..Len(arr) |-> JSONElement(arr[k])], ",") \o "]"

\* String.prototype.endsWith
endsWith(s, suffix) ==
    /\ Len(suffix) <= Len(s)
    /\ SubSeq(s, Len(s) - Len(suffix) + 1, Len(s)) = suffix

\* String.prototype.startsWith
startsWith(s, prefix) ==
    /\ Len(prefix) <= Len(s)
    /\ SubSeq(s, 1, Len(prefix)) = prefix

(***************************************************************************)
(* node:path (POSIX)                                                       *)
(***************************************************************************)
RECURSIVE SplitSlash(_, _, _)
\* The segments of p between '/' characters, from position k, cur being the
\* segment read so far.
SplitSlash(p, k, cur) ==
    IF k > Len(p) THEN <<cur>>
    ELSE IF SubSeq(p, k, k) = "/" THEN <<cur>> \o SplitSlash(p, k + 1, "")
    ELSE SplitSlash(p, k + 1, cur \o SubSeq(p, k, k))

RECURSIVE NormalizeSegments(_, _, _)
\* path.normalize on segments: '' and '.' are dropped, '..' removes the
\* segment before it (or is kept at the start of a relative path).
NormalizeSegments(segs, out, absolute) ==
    IF segs = <<>> THEN out
    ELSE LET h == Head(segs)
             rest == Tail(segs)
         IN IF h = "" \/ h = "." THEN NormalizeSegments(rest, out, absolute)
            ELSE IF h = ".."
            THEN IF out # <<>> /\ out[Len(out)] # ".."
                 THEN NormalizeSegments(rest, SubSeq(out, 1, Len(out) - 1), absolute)
                 ELSE IF absolute THEN NormalizeSegments(rest, out, absolute)
                 ELSE NormalizeSegments(rest, Append(out, h), absolute)
            ELSE NormalizeSegments(rest, Append(out, h), absolute)

isAbsolute(p) == startsWith(p, "/")

\* path.normalize (a trailing slash is kept, as Node keeps it).
normalize(p) ==
    LET absolute == isAbsolute(p)
        body == JoinWith(NormalizeSegments(SplitSlash(p, 1, ""), <<>>, absolute), "/")
        trailing == IF body # "" /\ endsWith(p, "/") THEN "/" ELSE ""
    IN IF absolute THEN "/" \o body \o trailing
       ELSE IF body = "" THEN (IF endsWith(p, "/") THEN "./" ELSE ".")
       ELSE body \o trailing

\* path.join(directory, file)
pathJoin(directory, file) ==
    IF directory = "" THEN normalize(file)
    ELSE normalize(directory \o "/" \o file)

\* The last path segment.
basename(p) ==
    LET segs == SplitSlash(p, 1, "") IN segs[Len(segs)]

\* path.extname: from the last '.' of the basename; '' when there is none or
\* when the only '.' is the first character.
extname(p) ==
    LET b == basename(p)
        dots == {k \in 1..Len(b) : SubSeq(b, k, k) = "."}
        last == CHOOSE k \in dots : \A j \in dots : j <= k
    IN IF dots = {} THEN ""
       ELSE IF last = 1 THEN ""
       ELSE IF b = ".." THEN ""
       ELSE SubSeq(b, last, Len(b))

(***************************************************************************)
(* The filesystem the walker reads: fs.readdir and fs.stat                 *)
(***************************************************************************)
\* process.cwd(), against which relative paths are resolved.
Cwd == "/w"

\* The directories that exist, by absolute path.
Dirs == {"/w", "/w/s", "/w/d.py"}

\* The names fs.readdir lists for each existing directory, in listing order.
Listing(d) ==
    CASE d = "/w" -> <<"prebuild.py", "s", "notes.txt", "d.py">>
      [] d = "/w/s" -> <<"build.py", "e.py", ".py">>
      [] OTHER -> <<>>

\* Directories whose permissions the environment may change.
Protectable == {"/w/s"}

StripSlash(p) ==
    IF Len(p) > 1 /\ endsWith(p, "/") THEN SubSeq(p, 1, Len(p) - 1) ELSE p

\* The absolute path the operating system resolves p to.
Resolve(p) ==
    IF isAbsolute(p) THEN StripSlash(normalize(p))
    ELSE StripSlash(normalize(Cwd \o "/" \o p))

VARIABLES
    options,     \* the value passed to InjectCommands
    plugin,      \* the outcome of construction: the plugin object or the throw
    viteConfig,  \* the closure variable `let viteConfig`
    delivered,   \* history: configurations the host has delivered
    unreadable,  \* directories fs.readdir currently fails on
    firings,     \* the invocations of hook handlers, by order of firing
    nFired       \* number of handler invocations so far

vars == <<options, plugin, viteConfig, delivered, unreadable, firings, nFired>>

\* The result of an fs call or of a function awaiting one.
Ok(list) == [ok |-> TRUE, list |-> list]
Failed == [ok |-> FALSE, list |-> <<>>]

\* fs.readdir(directory)
readdir(directory) ==
    LET d == Resolve(directory)
    IN IF d \in Dirs /\ d \notin unreadable THEN Ok(Listing(d)) ELSE Failed

\* (await fs.stat(file)).isDirectory()
isDirectory(file) == Resolve(file) \in Dirs

\* A variant of readDirectory that swallows the read error.
readDirectoryLenient(directory) ==
    LET files == readdir(directory)
    IN Ok([k \in 1..Len(files.list) |-> pathJoin(directory, files.list[k])])

readDirectory(directory) ==
    LET files == readdir(directory)
    IN IF ~files.ok THEN Failed
       ELSE Ok([k \in 1..Len(files.list) |-> pathJoin(directory, files.list[k])])

RECURSIVE findExecutables(_, _)
RECURSIVE WalkFiles(_, _)

\* The loop over the entries of one directory.
WalkFiles(files, fileList) ==
    IF files = <<>> THEN Ok(fileList)
    ELSE LET file == Head(files)
         IN IF isDirectory(file)
            THEN LET r == findExecutables(<<file>>, fileList)
                 IN IF r.ok THEN WalkFiles(Tail(files), r.list) ELSE Failed
            ELSE IF extname(file) = ".py"
            THEN WalkFiles(Tail(files), Append(fileList, file))
            ELSE WalkFiles(Tail(files), fileList)

findExecutables(executableDirectories, fileList) ==
    IF executableDirectories = <<>> THEN Ok(fileList)
    ELSE LET files == readDirectory(Head(executableDirectories))
         IN IF ~files.ok THEN Failed
            ELSE LET r == WalkFiles(files.list, fileList)
                 IN IF r.ok THEN findExecutables(Tail(executableDirectories), r.list)
                    ELSE Failed

(***************************************************************************)
(* Command resolver and invokers                                           *)
(***************************************************************************)
\* A variant of find that returns the last match.
findLast(foundExecutables, command) ==
    LET hits == {k \in 1..Len(foundExecutables) : endsWith(foundExecutables[k], command)}
    IN IF hits = {} THEN Undefined
       ELSE Str(foundExecutables[CHOOSE k \in hits : \A j \in hits : j <= k])

RECURSIVE find(_, _)
\* foundExecutables.find((executable) => executable.endsWith(command))
find(foundExecutables, command) ==
    IF foundExecutables = <<>> THEN Undefined
    ELSE IF endsWith(Head(foundExecutables), command) THEN Str(Head(foundExecutables))
    ELSE find(Tail(foundExecutables), command)

\* args ? args.join(' ') : ''
ArgsText(args) == IF args.present THEN JoinWith(args.list, " ") ELSE ""

\* A variant of runShellCommand that runs the resolved file when there is one.
runShellCommandResolved(executableToRun, args, command, viteConfigParam, hookArgs) ==
    [fn |-> "runShellCommand",
     viteConfig |-> viteConfigParam,
     hookArgs |-> hookArgs,
     commandString |-> (IF Falsy(executableToRun) THEN command
                        ELSE TemplateString(executableToRun))
                       \o " " \o ArgsText(args)
                       \o " --hookArgs '" \o JSONstringify(hookArgs)
                       \o "' --config '" \o TemplateString(viteConfigParam) \o "'"]

\* The call made by runShellCommand: its parameters as bound and the line
\* handed to exec.
runShellCommand(executableToRun, args, command, viteConfigParam, hookArgs) ==
    [fn |-> "runShellCommand",
     viteConfig |-> viteConfigParam,
     hookArgs |-> hookArgs,
     commandString |-> command \o " " \o ArgsText(args)
                       \o " --hookArgs '" \o JSONstringify(hookArgs)
                       \o "' --config '" \o TemplateString(viteConfigParam) \o "'"]

\* The call made by runExecutableCommand.
runExecutableCommand(executor, executableToRun, args, viteConfigParam, hookArgs) ==
    [fn |-> "runExecutableCommand",
     viteConfig |-> viteConfigParam,
     hookArgs |-> hookArgs,
     commandString |-> TemplateString(executor) \o " " \o TemplateString(executableToRun)
                       \o " " \o ArgsText(args)
                       \o " --hookArgs '" \o JSONstringify(hookArgs)
                       \o "' --config '" \o TemplateString(viteConfigParam) \o "'"]

\* Which branch of the loop body a command takes.  This variant spawns in
\* executor mode whether or not the command was resolved.
BranchUnchecked(executor, executableToRun) ==
    IF Falsy(executor) THEN "shell" ELSE "executable"

Branch(executor, executableToRun) ==
    IF Falsy(executor) THEN "shell"
    ELSE IF ~Falsy(executableToRun) THEN "executable"
    ELSE "notfound"

\* Whether the loop suspends on the subprocess it started.  This variant
\* leaves the promise floating.
NotAwaited(inv) == FALSE

\* `await runShellCommand(...)` and `await runExecutableCommand(...)`
Awaited(inv) == TRUE

\* How the loop goes on once the awaited promise settles.  This variant lets
\* a rejection escape the loop.
Rethrow(outcome) == IF outcome.error THEN "throw" ELSE "next"

\* try { ... console.log(stdout) } catch (error) { console.error(error) }
TryCatch(outcome) == "next"

\* One line written to the console by the handler working on command i (0:
\* before the loop).
Line(i, stream, text) == [i |-> i, stream |-> stream, text |-> text]

\* The rejection text `Error: ${error}, stderr: ${stderr}`, where exec's
\* error reads "Error: Command failed: <line>\n<stderr>".
RejectText(commandString, stderr) ==
    "Error: " \o "Error: Command failed: " \o commandString \o "\n" \o stderr
    \o ", stderr: " \o stderr

RECURSIVE executeLoop(_, _, _, _, _, _)
\* The for loop of execute from command i on, up to the next suspension or
\* to the end of the loop; st is the record of the firing.
executeLoop(executables, foundExecutables, hookArgs, config, i, st) ==
    IF i > Len(executables) THEN [st EXCEPT !.pc = "done", !.idx = i]
    ELSE LET c == executables[i]
             executableToRun == find(foundExecutables, c.command)
             branch == Branch(c.executor, executableToRun)
             inv == IF branch = "shell"
                    THEN runShellCommand(executableToRun, c.args, c.command,
                                         c.executor, <<config>> \o hookArgs)
                    ELSE runExecutableCommand(c.executor, executableToRun, c.args,
                                              Str(c.command), <<config>> \o hookArgs)
             tried == [st EXCEPT !.attempted = Append(@, i)]
             started == [tried EXCEPT !.spawned = Append(@, [i |-> i, call |-> inv]),
                                      !.procs = @ \cup {i}]
         IN IF branch = "notfound"
            THEN executeLoop(executables, foundExecutables, hookArgs, config, i + 1,
                     [tried EXCEPT !.console = Append(@,
                         Line(i, "error", "Command " \o c.command \o " not found."))])
            ELSE IF Awaited(inv)
            THEN [started EXCEPT !.pc = "awaiting", !.idx = i]
            ELSE executeLoop(executables, foundExecutables, hookArgs, config, i + 1,
                             started)

(***************************************************************************)
(* Plugin options                                                          *)
(***************************************************************************)
NoArgs == [present |-> FALSE, list |-> <<>>]
Args(list) == [present |-> TRUE, list |-> list]
CommandSpec(command, args, executor) ==
    [command |-> command, args |-> args, executor |-> executor]

NoHooks == [h \in {} |-> <<>>]

HooksA ==
    [h \in {"buildStart", "closeBundle"} |->
        IF h = "buildStart"
        THEN << CommandSpec("build.py", Args(<<"-v">>), Str("python")),
                CommandSpec("missing.py", NoArgs, Str("python")),
                CommandSpec("echo", Args(<<"a", "b">>), Str("")) >>
        ELSE << CommandSpec("echo", Args(<<"hi">>), Undefined),
                CommandSpec("e.py", NoArgs, Undefined) >>]

HooksB ==
    [h \in {"configResolved", "buildStart"} |->
        IF h = "configResolved"
        THEN << CommandSpec("build.py", Args(<<"resolved">>), Null) >>
        ELSE << CommandSpec("build.py", NoArgs, Str("python")) >>]

PathsOmitted == [t |-> "undefined", list |-> <<>>]
PathsNull == [t |-> "null", list |-> <<>>]
PathsArray(list) == [t |-> "array", list |-> list]

Primitive(t) == [t |-> t, paths |-> PathsOmitted, hooks |-> NoHooks]
Object(paths, hooks) == [t |-> "object", paths |-> paths, hooks |-> hooks]

OptionsSet ==
    { Primitive("number"), Primitive("string"), Primitive("null"),
      Primitive("undefined"),
      Object(PathsOmitted, HooksA),
      Object(PathsArray(<<>>), HooksA),
      Object(PathsNull, HooksA),
      Object(PathsArray(<<"/w/s", "/w">>), HooksA),
      Object(PathsArray(<<"/w", "/w/missing">>), HooksA),
      Object(PathsArray(<<"/w">>), HooksB) }

\* typeof options
TypeOf(v) == IF v.t = "null" THEN "object" ELSE v.t

\* This variant of the check on paths forgets the length test.
PathsRejectedNoLength(paths) == paths.t # "array"

\* !paths || paths.length === 0
PathsRejected(paths) == paths.t # "array" \/ Len(paths.list) = 0

Threw(error) == [state |-> "threw", error |-> error, paths |-> <<>>, hooks |-> NoHooks]
NotConstructed == [state |-> "none", error |-> "", paths |-> <<>>, hooks |-> NoHooks]

\* The call InjectCommands(opts): the plugin object returned or the throw.
Construct(opts) ==
    LET o == IF opts.t = "undefined" THEN Object(PathsOmitted, NoHooks) ELSE opts
        paths == IF o.paths.t = "undefined" THEN PathsArray(<<"./">>) ELSE o.paths
    IN IF TypeOf(o) # "object" THEN Threw("Options must be an object")
       ELSE IF o.t = "null" THEN Threw("TypeError")
       ELSE IF PathsRejected(paths)
       THEN Threw("You must specify at least one directory to search for scripts.")
       ELSE [state |-> "installed", error |-> "", paths |-> paths.list,
             hooks |-> o.hooks]

\* Whether the plugin object's configResolved is the one that stores the
\* configuration: the spread of the hook handlers comes after it.
CapturesConfig(hooks) == "configResolved" \notin DOMAIN hooks

(***************************************************************************)
(* The host: signals, hook arguments, subprocess outcomes                  *)
(***************************************************************************)
\* The resolved configurations the host may deliver.
Configs == {Obj("{\"mode\":\"dev\"}")}

\* The positional arguments the host may pass to each hook: buildStart
\* receives the input options, closeBundle receives nothing.
HookArgsOf(hook) == IF hook = "buildStart" THEN {<<Obj("{}")>>} ELSE {<<>>}

\* What exec reports to its callback.
Outcomes ==
    { [error |-> FALSE, stdout |-> "out\n", stderr |-> ""],
      [error |-> TRUE, stdout |-> "", stderr |-> "boom"] }

Firings == 1..MaxFirings

Idle ==
    [pc |-> "idle", hook |-> "", hookArgs |-> <<>>, config |-> Undefined,
     seen |-> <<>>, walkUnreadable |-> {}, afterRejected |-> FALSE, found |-> <<>>, idx |-> 0,
     attempted |-> <<>>, spawned |-> <<>>, console |-> <<>>, procs |-> {}]

\* JSON.stringify(config) inside the template of the "Config:" line.
ConfigText(v) == IF v.t = "undefined" THEN "undefined" ELSE JSONElement(v)

\* The handler registered for a hook is called: it logs the arguments and
\* calls execute, which suspends in the walk.  The array printed after
\* "hookArgs:" is not rendered.
Handler(hook, hookArgs) ==
    [Idle EXCEPT !.pc = "walking", !.hook = hook, !.hookArgs = hookArgs,
                 !.config = viteConfig, !.seen = delivered,
                 !.console = <<Line(0, "log", "hookArgs:")>>]

Init ==
    /\ options \in OptionsSet
    /\ plugin = NotConstructed
    /\ viteConfig = Undefined
    /\ delivered = <<>>
    /\ unreadable = {}
    /\ firings = [f \in Firings |-> Idle]
    /\ nFired = 0

\* The caller constructs the plugin.
InjectCommands ==
    /\ plugin.state = "none"
    /\ plugin' = Construct(options)
    /\ UNCHANGED <<options, viteConfig, delivered, unreadable, firings, nFired>>

\* The host delivers the resolved configuration (once per plugin instance)
\* and the plugin's own configResolved stores it.
configResolved(config) ==
    /\ plugin.state = "installed"
    /\ delivered = <<>>
    /\ CapturesConfig(plugin.hooks)
    /\ viteConfig' = config
    /\ delivered' = Append(delivered, config)
    /\ UNCHANGED <<options, plugin, unreadable, firings, nFired>>

\* The host delivers the resolved configuration and the key configResolved of
\* the plugin object is a handler made from the caller's hooks.
configResolvedHook(config) ==
    /\ plugin.state = "installed"
    /\ delivered = <<>>
    /\ ~CapturesConfig(plugin.hooks)
    /\ nFired < MaxFirings
    /\ nFired' = nFired + 1
    /\ delivered' = Append(delivered, config)
    /\ firings' = [firings EXCEPT ![nFired + 1] = Handler("configResolved", <<config>>)]
    /\ UNCHANGED <<options, plugin, viteConfig, unreadable>>

\* The host fires another registered hook.
FireHook(hook, hookArgs) ==
    /\ plugin.state = "installed"
    /\ hook \in DOMAIN plugin.hooks \ {"configResolved"}
    /\ nFired < MaxFirings
    /\ nFired' = nFired + 1
    /\ firings' = [firings EXCEPT ![nFired + 1] = Handler(hook, hookArgs)]
    /\ UNCHANGED <<options, plugin, viteConfig, delivered, unreadable>>

\* The walk of execute completes in the filesystem as it is now (the walk is
\* taken against one snapshot of the filesystem); on success the handler logs
\* the configuration and runs the loop up to its first suspension.
Walk(f) ==
    /\ firings[f].pc = "walking"
    /\ LET st == [firings[f] EXCEPT
                    !.walkUnreadable = unreadable,
                    !.afterRejected = \E g \in Firings : firings[g].pc = "rejected"]
           foundExecutables == findExecutables(plugin.paths, <<>>)
       IN firings' = [firings EXCEPT ![f] =
            IF ~foundExecutables.ok THEN [st EXCEPT !.pc = "rejected"]
            ELSE executeLoop(plugin.hooks[st.hook], foundExecutables.list,
                     st.hookArgs, st.config, 1,
                     [st EXCEPT !.found = foundExecutables.list,
                                !.console = Append(@, Line(0, "log",
                                    "Config: " \o ConfigText(st.config)))])]
    /\ UNCHANGED <<options, plugin, viteConfig, delivered, unreadable, nFired>>

\* exec calls back for the subprocess of command i: the promise settles; the
\* loop awaiting it logs the outcome and goes on to its next suspension.
ExecCallback(f, i, outcome) ==
    /\ i \in firings[f].procs
    /\ LET st == [firings[f] EXCEPT !.procs = @ \ {i}]
           call == (CHOOSE sp \in {st.spawned[k] : k \in 1..Len(st.spawned)} :
                       sp.i = i).call
           logged == [st EXCEPT !.console = Append(@,
                        IF outcome.error
                        THEN Line(i, "error", RejectText(call.commandString, outcome.stderr))
                        ELSE Line(i, "log", outcome.stdout))]
       IN firings' = [firings EXCEPT ![f] =
            IF ~(st.pc = "awaiting" /\ st.idx = i) THEN st
            ELSE IF TryCatch(outcome) = "throw" THEN [st EXCEPT !.pc = "rejected"]
            ELSE executeLoop(plugin.hooks[st.hook], st.found, st.hookArgs,
                             st.config, i + 1, logged)]
    /\ UNCHANGED <<options, plugin, viteConfig, delivered, unreadable, nFired>>

\* The environment changes the permissions of a directory.  Only a walk reads
\* the permissions, so the change is taken while some walk is still to come.
Chmod(d) ==
    /\ \E f \in Firings : firings[f].pc = "walking"
    /\ unreadable' = IF d \in unreadable THEN unreadable \ {d} ELSE unreadable \cup {d}
    /\ UNCHANGED <<options, plugin, viteConfig, delivered, firings, nFired>>

Next ==
    \/ InjectCommands
    \/ \E config \in Configs : configResolved(config)
    \/ \E config \in Configs : configResolvedHook(config)
    \/ \E hook \in {"buildStart", "closeBundle"} :
           \E hookArgs \in HookArgsOf(hook) : FireHook(hook, hookArgs)
    \/ \E f \in Firings : Walk(f)
    \/ \E f \in Firings, outcome \in Outcomes :
           \E i \in firings[f].procs : ExecCallback(f, i, outcome)
    \/ \E d \in Protectable : Chmod(d)

Spec == Init /\ [][Next]_vars

(***************************************************************************)
(* Vocabulary of the properties                                            *)
(***************************************************************************)
\* The CommandSpecs of the hook that firing f is running.
Executables(f) == plugin.hooks[firings[f].hook]

\* The handler of f has logged the configuration: its walk returned.
WalkSucceeded(f) ==
    \E k \in 1..Len(firings[f].console) :
        /\ firings[f].console[k].i = 0
        /\ startsWith(firings[f].console[k].text, "Config: ")

\* The console lines firing f wrote while working on command i.
LinesOf(f, i) ==
    {firings[f].console[k] : k \in {j \in 1..Len(firings[f].console) :
                                        firings[f].console[j].i = i}}

\* The subprocesses firing f started for command i.
SpawnsOf(f, i) ==
    {firings[f].spawned[k] : k \in {j \in 1..Len(firings[f].spawned) :
                                        firings[f].spawned[j].i = i}}

\* Positions of the discovered files whose path ends with command.
Hits(found, command) == {k \in 1..Len(found) : endsWith(found[k], command)}

Min(S) == CHOOSE k \in S : \A j \in S : k <= j

Count(seq, e) == Cardinality({k \in 1..Len(seq) : seq[k] = e})

\* Every directory a complete walk from the roots reads: the roots and the
\* existing directories below them.
WalkDirs(roots) ==
    {Resolve(roots[k]) : k \in 1..Len(roots)}
    \cup {d \in Dirs : \E k \in 1..Len(roots) :
                          startsWith(d, Resolve(roots[k]) \o "/")}

\* The absolute paths of the files (not directories) with the target
\* extension, at any depth below some root.
TargetFiles(roots) ==
    {p \in UNION {{d \o "/" \o Listing(d)[k] : k \in 1..Len(Listing(d))} : d \in Dirs} :
        /\ p \notin Dirs
        /\ extname(p) = ".py"
        /\ \E k \in 1..Len(roots) : startsWith(p, Resolve(roots[k]) \o "/")}

(***************************************************************************)
(* Properties of the execute loop                                          *)
(***************************************************************************)
\* C1: in a firing whose walk succeeded the commands of the hook are attempted
\* once each in declaration order, whatever the earlier outcomes were: the
\* attempts made so far are 1, 2, ..., the handler never rejects, it is done
\* only when all n were attempted, and every command before the current one
\* has its outcome on the console.
C1_EveryCommandAttemptedInOrder ==
    \A f \in Firings :
        WalkSucceeded(f) =>
            LET st == firings[f]
                n == Len(Executables(f))
            IN /\ st.pc \in {"awaiting", "done"}
               /\ Len(st.attempted) <= n
               /\ \A k \in 1..Len(st.attempted) : st.attempted[k] = k
               /\ st.pc = "done" => Len(st.attempted) = n
               /\ st.pc = "awaiting" => st.idx = Len(st.attempted)
               /\ \A i \in 1..Len(st.attempted) :
                      (st.pc = "done" \/ i < st.idx) => LinesOf(f, i) # {}

\* A firing is done, its first command failed in its subprocess, its second
\* was not resolved, and its third ran and succeeded.
C1_Witness ==
    \E f \in Firings :
        /\ firings[f].pc = "done"
        /\ Len(Executables(f)) = 3
        /\ \E l \in LinesOf(f, 1) : l.stream = "error" /\ SpawnsOf(f, 1) # {}
        /\ \E l \in LinesOf(f, 2) : l.stream = "error" /\ SpawnsOf(f, 2) = {}
        /\ \E l \in LinesOf(f, 3) : l.stream = "log"

\* C2: within one firing at most one subprocess is running, it is the one
\* started last, subprocesses are started in declaration order, and every
\* subprocess started before it has exited and has its outcome on the console.
C2_StrictlySequential ==
    \A f \in Firings :
        LET st == firings[f]
            m == Len(st.spawned)
        IN /\ Cardinality(st.procs) <= 1
           /\ \A k \in 1..m : \A j \in 1..m : k < j => st.spawned[k].i < st.spawned[j].i
           /\ \A i \in st.procs : m > 0 /\ st.spawned[m].i = i
           /\ \A k \in 1..m :
                  (k < m \/ st.procs = {}) =>
                      /\ st.spawned[k].i \notin st.procs
                      /\ Cardinality(LinesOf(f, st.spawned[k].i)) = 1

\* The second subprocess of a firing is running after the first one failed.
C2_Witness ==
    \E f \in Firings :
        /\ Len(firings[f].spawned) = 2
        /\ firings[f].procs = {firings[f].spawned[2].i}
        /\ \E l \in LinesOf(f, firings[f].spawned[1].i) : l.stream = "error"

\* C3: a command with an executor that matches no discovered file starts no
\* subprocess and gets the error line naming it; a subprocess started in
\* executor mode belongs to a command that some discovered file matches.
C3_UnresolvedExecutorCommandNotSpawned ==
    \A f \in Firings :
        LET st == firings[f]
        IN /\ \A i \in 1..Len(st.attempted) :
                  LET c == Executables(f)[i]
                  IN (~Falsy(c.executor) /\ Hits(st.found, c.command) = {}) =>
                        /\ SpawnsOf(f, i) = {}
                        /\ LinesOf(f, i) =
                              {Line(i, "error", "Command " \o c.command \o " not found.")}
           /\ \A k \in 1..Len(st.spawned) :
                  st.spawned[k].call.fn = "runExecutableCommand" =>
                      Hits(st.found, Executables(f)[st.spawned[k].i].command) # {}

\* A firing went past a command with an executor and no matching file while
\* other files were discovered.
C3_Witness ==
    \E f \in Firings :
        /\ firings[f].found # <<>>
        /\ \E i \in 1..Len(firings[f].attempted) :
              /\ ~Falsy(Executables(f)[i].executor)
              /\ Hits(firings[f].found, Executables(f)[i].command) = {}
              /\ i < firings[f].idx

\* C4: a firing whose walk met a directory that could not be read (a root or
\* a directory below one, missing or unreadable when the walk ran) rejects:
\* nothing is resolved, attempted or spawned and no partial list is kept.  A
\* firing whose walk met no such directory goes on to its commands, also
\* when earlier firings were rejected.
C4_WalkFailureAbortsFiring ==
    \A f \in Firings :
        LET st == firings[f]
            unread == {d \in WalkDirs(plugin.paths) :
                          d \notin Dirs \/ d \in st.walkUnreadable}
        IN st.pc \notin {"idle", "walking"} =>
              /\ unread # {} =>
                    /\ st.pc = "rejected"
                    /\ ~WalkSucceeded(f)
                    /\ st.found = <<>> /\ st.attempted = <<>>
                    /\ st.spawned = <<>> /\ st.procs = {}
              /\ unread = {} =>
                    /\ st.pc # "rejected"
                    /\ WalkSucceeded(f)
                    /\ st.attempted # <<>>

\* One firing was rejected by an unreadable nested directory and a firing
\* that walked after that rejection has run all its commands.
C4_Witness ==
    \E f \in Firings, g \in Firings :
        /\ firings[f].pc = "rejected"
        /\ "/w/s" \in firings[f].walkUnreadable
        /\ firings[g].afterRejected
        /\ firings[g].pc = "done"
        /\ firings[g].spawned # <<>>

(***************************************************************************)
(* Properties of construction                                              *)
(***************************************************************************)
\* C6: construction fails, returning no plugin object and so no handler,
\* when the options are a number, a string or null or when paths is an empty
\* array; it succeeds with the search roots ['./'] when paths is omitted from
\* an options object or the options are omitted.  No handler runs, and so no
\* walk starts, before construction or after a failed one.
C6_ConstructionValidates ==
    /\ plugin.state \in {"none", "threw"} =>
          /\ nFired = 0
          /\ \A f \in Firings : firings[f] = Idle
          /\ plugin.hooks = NoHooks
    /\ plugin.state # "none" =>
          /\ (options.t \in {"number", "string", "null"}
              \/ (options.t = "object" /\ options.paths = PathsArray(<<>>)))
                 => plugin.state = "threw" /\ plugin.error # ""
          /\ (options.t \in {"object", "undefined"} /\ options.paths.t = "undefined")
                 => plugin.state = "installed" /\ plugin.paths = <<"./">>

\* Construction was called with an empty paths array and threw.
C6_Witness ==
    /\ options.t = "object"
    /\ options.paths = PathsArray(<<>>)
    /\ plugin.state = "threw"

(***************************************************************************)
(* Properties of resolution and of the command lines                       *)
(***************************************************************************)
\* C7: for a command with an executor, when no discovered path ends with the
\* command nothing is spawned, and otherwise the command line is the executor
\* followed by the first path, in the order of the discovered list, that ends
\* with the command.  The discovered list is in walk order: roots in the
\* order given, entries in listing order, depth first.
C7_FirstSuffixMatchInWalkOrder ==
    \A f \in Firings :
        LET st == firings[f]
        IN /\ \A i \in 1..Len(st.attempted) :
                  LET c == Executables(f)[i]
                      hits == Hits(st.found, c.command)
                  IN ~Falsy(c.executor) =>
                        IF hits = {} THEN SpawnsOf(f, i) = {}
                        ELSE \A sp \in SpawnsOf(f, i) :
                                startsWith(sp.call.commandString,
                                    c.executor.s \o " " \o st.found[Min(hits)] \o " ")
           /\ (WalkSucceeded(f) /\ plugin.paths = <<"/w/s", "/w">>) =>
                  st.found = <<"/w/s/build.py", "/w/s/e.py", "/w/prebuild.py",
                               "/w/s/build.py", "/w/s/e.py">>
           /\ (WalkSucceeded(f) /\ plugin.paths = <<"/w">>) =>
                  st.found = <<"/w/prebuild.py", "/w/s/build.py", "/w/s/e.py">>

\* A subprocess was started in executor mode for a command that two
\* different discovered files match, the first of them only by suffix.
C7_Witness ==
    \E f \in Firings : \E k \in 1..Len(firings[f].spawned) :
        LET c == Executables(f)[firings[f].spawned[k].i]
            hits == Hits(firings[f].found, c.command)
        IN /\ firings[f].spawned[k].call.fn = "runExecutableCommand"
           /\ Cardinality({firings[f].found[h] : h \in hits}) >= 2
           /\ basename(firings[f].found[Min(hits)]) # c.command

\* C9 (as amended): in direct mode the command line is the raw command token,
\* never the file it resolves to, a space, the args joined by single spaces,
\* and then always the two flags: --hookArgs with the JSON text of the
\* invoker's hookArgs array and --config with the text of its viteConfig, each
\* in single quotes.
C9_DirectCommandLine ==
    \A f \in Firings : \A k \in 1..Len(firings[f].spawned) :
        LET sp == firings[f].spawned[k]
            c == Executables(f)[sp.i]
        IN Falsy(c.executor) =>
              /\ sp.call.fn = "runShellCommand"
              /\ sp.call.commandString =
                    c.command \o " "
                    \o (IF c.args.present THEN JoinWith(c.args.list, " ") ELSE "")
                    \o " --hookArgs '" \o JSONstringify(sp.call.hookArgs) \o "'"
                    \o " --config '" \o TemplateString(sp.call.viteConfig) \o "'"

\* A firing without hook arguments started a direct-mode subprocess for
\* echo hi and then one for a command that a discovered file matches.
C9_Witness ==
    \E f \in Firings :
        /\ firings[f].hookArgs = <<>>
        /\ \E k \in 1..Len(firings[f].spawned) :
              LET c == Executables(f)[firings[f].spawned[k].i]
              IN /\ Falsy(c.executor)
                 /\ c.command = "echo" /\ c.args = Args(<<"hi">>)
        /\ \E k \in 1..Len(firings[f].spawned) :
              LET c == Executables(f)[firings[f].spawned[k].i]
              IN /\ Falsy(c.executor)
                 /\ Hits(firings[f].found, c.command) # {}

\* The extra arguments as the claim has them serialized: strings as they
\* are, other values as compact JSON.
Serialized(values) ==
    [k \in 1..Len(values) |->
        IF values[k].t = "string" THEN values[k].s ELSE JSONElement(values[k])]

\* C9 (as stated): in direct mode the command line is the raw command token,
\* the args and the serialized extra arguments joined by single spaces, and
\* nothing else; echo hi without extra arguments runs as `echo hi`.
C9_DirectCommandLineAsStated ==
    \A f \in Firings : \A k \in 1..Len(firings[f].spawned) :
        LET sp == firings[f].spawned[k]
            c == Executables(f)[sp.i]
        IN Falsy(c.executor) =>
              sp.call.commandString =
                  JoinWith(<<c.command>> \o c.args.list
                           \o Serialized(firings[f].hookArgs), " ")

\* C10: every invocation made by execute binds the invoker's viteConfig to
\* the configuration of the firing and its hookArgs to exactly the arguments
\* the host passed to the firing.
C10_ConfigAndHookArgsPassedThrough ==
    \A f \in Firings : \A k \in 1..Len(firings[f].spawned) :
        /\ firings[f].spawned[k].call.viteConfig = firings[f].config
        /\ firings[f].spawned[k].call.hookArgs = firings[f].hookArgs

(***************************************************************************)
(* Properties of the walker and of the captured configuration              *)
(***************************************************************************)
\* C8: the list a successful walk returns holds the absolute path of every
\* file with the target extension below the roots exactly once, and nothing
\* else.
C8_WalkerListsEachTargetOnce ==
    \A f \in Firings :
        WalkSucceeded(f) =>
            /\ \A p \in TargetFiles(plugin.paths) : Count(firings[f].found, p) = 1
            /\ \A k \in 1..Len(firings[f].found) :
                  firings[f].found[k] \in TargetFiles(plugin.paths)

\* C5: a firing made after the host delivered a resolved configuration runs
\* with that configuration, and a firing made before any delivery runs with
\* undefined.
C5_LaterFiringsUseDeliveredConfig ==
    \A f \in Firings :
        firings[f].pc # "idle" =>
            /\ firings[f].seen = <<>> => firings[f].config = Undefined
            /\ \A k \in 1..Len(firings[f].seen) :
                  firings[f].config = firings[f].seen[k]

====
